---- MODULE Spec2Model ----
(***************************************************************************)
(* State-machine model of three parts of the repository:                   *)
(*   - monitoring.py          class OperationMonitor                       *)
(*   - hack_instagram.py      validate_arguments, handle_arguments, main   *)
(*   - instagram_bruteforce.py  AISecurityTester and                       *)
(*                              ai_security_demonstration                  *)
(* Three specifications share the variables:                               *)
(*   SpecMonitor  an OperationMonitor driven through its public methods    *)
(*                in any order, with its sampling task or thread running   *)
(*   Spec         one run of hack_instagram.main                           *)
(*   SpecAI       one run of ai_security_demonstration                     *)
(***************************************************************************)
EXTENDS Integers, Sequences, FiniteSets, TLC

\* ------------------------------------------------------------------ bounds

\* most samples one of the lists cpu_usage / memory_usage takes
MaxSamples == 1
\* most log_request calls
MaxRequests == 1
\* most start_monitoring calls on one monitor
MaxStarts == 1
\* most entries log_error records under one error type
MaxErrors == 1
\* the max_attempts argument of conduct_ai_security_test, scaled down
MaxAttempts == 4

\* readings datetime.now() can give (whole seconds)
Times == {0, 1}
\* readings psutil.cpu_percent() / memory_percent() can give
Percent == {50}
\* readings threading.active_count() can give (the main thread always counts)
ThreadCounts == {1, 2}
\* the error_type strings passed to log_error
ErrorTypes == {"network", "auth"}

\* what argparse can make of the command line
Usernames == {"", "target_user"}
PasswordLists == {"", "passwords.txt"}
ProxyLists == {"", "proxies.txt"}
ThreadArgs == {0, 1, 4}
\* the paths that may exist on disk
Paths == {"passwords.txt", "proxies.txt"}
\* lines the operator can type at a prompt
ConfirmLines == {"AUTHORIZED", "authorized", "AUTHORIZED ", "",
                 "AI AUTHORIZED TESTING", "ai authorized testing"}
\* exceptions input() raises instead of returning a line
InputErrors == {"EOFError", "KeyboardInterrupt"}
\* passwords the generators of AISecurityTester can produce
Passwords == {"password123", "target_user123"}

\* Python's None, and a value that is not None
None == <<>>
Some(x) == <<x>>

VARIABLES
    \* ---- OperationMonitor (monitoring.py)
    active,               \* self.active
    start_time,           \* self.stats['start_time']: None or a clock reading
    requests_sent,        \* self.stats['requests_sent']
    successful_requests,  \* self.stats['successful_requests']
    failed_requests,      \* self.stats['failed_requests']
    cpu_usage,            \* self.stats['cpu_usage']
    memory_usage,         \* self.stats['memory_usage']
    active_threads,       \* self.stats['active_threads']
    errors,               \* self.stats['errors']: <<>> while the key is absent,
                          \* else <<f>>, f a function error_type -> number of entries
    samplers,             \* one entry per task/thread start_monitoring spawned
    report_file,          \* security_testing_report.txt: None while it was not
                          \* written, else the number of lines it holds
    lastCall,             \* the last public method called and how it ended
    startCalls,           \* history: number of start_monitoring calls
    \* ---- hack_instagram.py
    pc,                   \* position of main / ai_security_demonstration
    argv,                 \* "ok": argparse accepts the command line; "bad": not
    args,                 \* the argparse namespace
    fs,                   \* the paths that exist on disk
    errorLog,             \* messages passed to logger.error, in order
    validateResult,       \* what validate_arguments returned (None: not called)
    exitStatus,           \* status of SystemExit (None: none raised)
    promptOutcome,        \* how input() ended
    confirm,              \* the line input() returned
    events,               \* observable steps of the run, in order
    uncaught,             \* exception that left the coroutine (None: none)
    \* ---- AISecurityTester (instagram_bruteforce.py)
    attempts,             \* self.attempts
    found_password,       \* self.found_password
    previous_attempts,    \* self.previous_attempts
    attempt               \* loop index of conduct_ai_security_test

mvars == <<active, start_time, requests_sent, successful_requests,
           failed_requests, cpu_usage, memory_usage, active_threads,
           errors, samplers, report_file, lastCall, startCalls>>
pvars == <<pc, argv, args, fs, errorLog, validateResult, exitStatus,
           promptOutcome, confirm, events, uncaught>>
avars == <<attempts, found_password, previous_attempts, attempt>>
vars == <<mvars, pvars, avars>>

\* ------------------------------------------------------------ Python helpers

Max(a, b) == IF a >= b THEN a ELSE b
Min(a, b) == IF a <= b THEN a ELSE b

RECURSIVE Sum(_)
Sum(s) == IF s = <<>> THEN 0 ELSE Head(s) + Sum(Tail(s))

\* s[-n:]
LastN(s, n) == IF Len(s) <= n THEN s ELSE SubSeq(s, Len(s) - n + 1, Len(s))

Range(s) == {s[i] : i \in DOMAIN s}

\* ============================================================ monitoring.py

\* OperationMonitor.__init__
MonitorInit ==
    /\ active = FALSE
    /\ start_time = None
    /\ requests_sent = 0
    /\ successful_requests = 0
    /\ failed_requests = 0
    /\ cpu_usage = <<>>
    /\ memory_usage = <<>>
    /\ active_threads = 0
    /\ errors = <<>>
    /\ samplers = <<>>
    /\ report_file = <<>>
    /\ lastCall = [op |-> "__init__", exc |-> None]
    /\ startCalls = 0

\* a test of the wrong statistic: "not started" while no request was logged
StartTimeUnsetByRequests == requests_sent = 0

\* `not self.stats['start_time']`: None is falsy, a datetime is always truthy
StartTimeUnset == start_time = None

\* the clock does not run backwards: a reading taken after start_monitoring
\* is not before the reading start_monitoring stored
ClockReading(now) == IF start_time = None THEN TRUE ELSE now >= start_time[1]

\* the dict get_current_status returns before monitoring started
NotStartedStatus == [status |-> "Monitoring not started"]

\* get_current_status when datetime.now() reads `now`: what it returns, or
\* the exception it raises. Floats are kept as whole numbers (floor of the
\* quotient).
GetCurrentStatus(now) ==
    IF StartTimeUnset
    THEN [exc |-> None, ret |-> <<NotStartedStatus>>]
    ELSE IF Min(10, Len(cpu_usage)) = 0 \/ Min(10, Len(memory_usage)) = 0
    THEN [exc |-> Some("ZeroDivisionError"), ret |-> <<>>]
    ELSE [exc |-> None, ret |-> <<
           [running_time |-> now - start_time[1],
            requests_sent |-> requests_sent,
            success_rate |-> (successful_requests * 100) \div Max(1, requests_sent),
            active_threads |-> active_threads,
            avg_cpu_usage |-> Sum(LastN(cpu_usage, 10)) \div Min(10, Len(cpu_usage)),
            avg_memory_usage |-> Sum(LastN(memory_usage, 10)) \div Min(10, Len(memory_usage))]
         >>]

\* the lines `report` holds after the "Error Summary" block: none when
\* the 'errors' key is absent or its dict empty, else three heading lines
\* and one line per error type
ErrorSummaryLines ==
    IF errors = <<>> THEN 0
    ELSE IF DOMAIN errors[1] = {} THEN 0
    ELSE 3 + Cardinality(DOMAIN errors[1])

\* _generate_report when datetime.now() reads `now`: the exception it raises
\* (None: it wrote the file) and the number of lines of the text it writes
\* (two heading lines, eight lines of figures, the error summary)
GenerateReport(now) ==
    LET final_stats == GetCurrentStatus(now) IN
    IF final_stats.exc # None
    THEN [exc |-> final_stats.exc, text |-> None]
    ELSE IF "running_time" \notin DOMAIN final_stats.ret[1]
    THEN [exc |-> Some("KeyError"), text |-> None]
    ELSE [exc |-> None, text |-> Some(2 + 8 + ErrorSummaryLines)]

\* start_monitoring, spawning a task (mode "async") or a thread ("thread")
start_monitoring(mode, now) ==
    /\ ClockReading(now)
    /\ startCalls < MaxStarts
    /\ active' = TRUE
    /\ start_time' = Some(now)
    /\ samplers' = Append(samplers, [mode |-> mode, at |-> "loop"])
    /\ startCalls' = startCalls + 1
    /\ lastCall' = [op |-> "start_monitoring", exc |-> None]
    /\ UNCHANGED <<requests_sent, successful_requests, failed_requests,
                   cpu_usage, memory_usage, active_threads,
                   errors, report_file>>

\* stop_monitoring
stop_monitoring(now) ==
    /\ ClockReading(now)
    /\ active' = FALSE
    /\ LET r == GenerateReport(now) IN
         /\ report_file' = IF r.exc = None THEN r.text ELSE report_file
         /\ lastCall' = [op |-> "stop_monitoring", exc |-> r.exc]
    /\ UNCHANGED <<start_time, requests_sent, successful_requests,
                   failed_requests, cpu_usage, memory_usage,
                   active_threads, errors, samplers, startCalls>>

\* log_request. stats['last_request_time'], which it also stores, is read
\* nowhere and is left out of the state.
log_request(success) ==
    /\ requests_sent < MaxRequests
    /\ requests_sent' = requests_sent + 1
    /\ IF success
       THEN /\ successful_requests' = successful_requests + 1
            /\ UNCHANGED failed_requests
       ELSE /\ failed_requests' = failed_requests + 1
            /\ UNCHANGED successful_requests
    /\ lastCall' = [op |-> "log_request", exc |-> None]
    /\ UNCHANGED <<active, start_time, cpu_usage, memory_usage, active_threads,
                   errors, samplers, report_file, startCalls>>

\* log_error. Of the entries appended under an error type only their number
\* is read (len(errors) in the report), so the number is what is kept.
log_error(error_type) ==
    LET d0 == IF errors = <<>> THEN [t \in {} |-> 0] ELSE errors[1]
        d1 == IF error_type \in DOMAIN d0 THEN d0
              ELSE [t \in DOMAIN d0 \cup {error_type} |->
                      IF t = error_type THEN 0 ELSE d0[t]]
    IN
    /\ d1[error_type] < MaxErrors
    /\ errors' = <<[d1 EXCEPT ![error_type] = @ + 1]>>
    /\ lastCall' = [op |-> "log_error", exc |-> None]
    /\ UNCHANGED <<active, start_time, requests_sent, successful_requests,
                   failed_requests, cpu_usage, memory_usage,
                   active_threads, samplers, report_file, startCalls>>

\* a call of get_current_status from outside
get_current_status(now) ==
    /\ ClockReading(now)
    /\ lastCall' = [op |-> "get_current_status", exc |-> GetCurrentStatus(now).exc]
    /\ UNCHANGED <<active, start_time, requests_sent, successful_requests,
                   failed_requests, cpu_usage, memory_usage,
                   active_threads, errors, samplers, report_file, startCalls>>

\* _monitor_resources_async: one turn of the loop. Nothing awaits between the
\* test of self.active and the sleep, so the event loop runs it in one piece.
\* The loop ends when it finds self.active false.
monitor_resources_async(i) ==
    /\ samplers[i].mode = "async"
    /\ samplers[i].at = "loop"
    /\ IF active
       THEN /\ Len(cpu_usage) < MaxSamples
            /\ Len(memory_usage) < MaxSamples
            /\ \E c \in Percent : cpu_usage' = Append(cpu_usage, c)
            /\ \E m \in Percent : memory_usage' = Append(memory_usage, m)
            /\ \E n \in ThreadCounts : active_threads' = n
            /\ UNCHANGED samplers
       ELSE /\ samplers' = [samplers EXCEPT ![i].at = "exited"]
            /\ UNCHANGED <<cpu_usage, memory_usage, active_threads>>
    /\ UNCHANGED <<active, start_time, requests_sent, successful_requests,
                   failed_requests, errors, report_file,
                   lastCall, startCalls>>

\* _monitor_resources: the thread takes no lock, so each statement of the
\* loop body is a step of its own that the other threads can see.
monitor_resources_test(i) ==
    /\ samplers[i].mode = "thread"
    /\ samplers[i].at = "loop"
    /\ samplers' = [samplers EXCEPT ![i].at = IF active THEN "cpu" ELSE "exited"]
    /\ UNCHANGED <<active, start_time, requests_sent, successful_requests,
                   failed_requests, cpu_usage, memory_usage,
                   active_threads, errors, report_file, lastCall, startCalls>>

monitor_resources_cpu(i) ==
    /\ samplers[i].mode = "thread"
    /\ samplers[i].at = "cpu"
    /\ Len(cpu_usage) < MaxSamples
    /\ \E c \in Percent : cpu_usage' = Append(cpu_usage, c)
    /\ samplers' = [samplers EXCEPT ![i].at = "memory"]
    /\ UNCHANGED <<active, start_time, requests_sent, successful_requests,
                   failed_requests, memory_usage,
                   active_threads, errors, report_file, lastCall, startCalls>>

monitor_resources_memory(i) ==
    /\ samplers[i].mode = "thread"
    /\ samplers[i].at = "memory"
    /\ Len(memory_usage) < MaxSamples
    /\ \E m \in Percent : memory_usage' = Append(memory_usage, m)
    /\ samplers' = [samplers EXCEPT ![i].at = "threads"]
    /\ UNCHANGED <<active, start_time, requests_sent, successful_requests,
                   failed_requests, cpu_usage,
                   active_threads, errors, report_file, lastCall, startCalls>>

monitor_resources_threads(i) ==
    /\ samplers[i].mode = "thread"
    /\ samplers[i].at = "threads"
    /\ \E n \in ThreadCounts : active_threads' = n
    /\ samplers' = [samplers EXCEPT ![i].at = "loop"]
    /\ UNCHANGED <<active, start_time, requests_sent, successful_requests,
                   failed_requests, cpu_usage, memory_usage,
                   errors, report_file, lastCall, startCalls>>

\* ------------------------------------------------ idle values of the rest

ProgramIdle ==
    /\ pc = "idle"
    /\ argv = "ok"
    /\ args = [username |-> "", password_list |-> "", proxy_list |-> None,
               threads |-> 1, use_tor |-> FALSE]
    /\ fs = {}
    /\ errorLog = <<>>
    /\ validateResult = None
    /\ exitStatus = None
    /\ promptOutcome = "pending"
    /\ confirm = ""
    /\ events = <<>>
    /\ uncaught = None

TesterIdle ==
    /\ attempts = 0
    /\ found_password = None
    /\ previous_attempts = <<>>
    /\ attempt = 0

\* ------------------------------------------------------------ SpecMonitor

InitMonitor ==
    /\ MonitorInit
    /\ ProgramIdle
    /\ TesterIdle

NextMonitor ==
    \/ (\E mode \in {"async", "thread"}, now \in Times : start_monitoring(mode, now))
          /\ UNCHANGED <<pvars, avars>>
    \/ (\E now \in Times : stop_monitoring(now)) /\ UNCHANGED <<pvars, avars>>
    \/ (\E success \in BOOLEAN : log_request(success)) /\ UNCHANGED <<pvars, avars>>
    \/ (\E t \in ErrorTypes : log_error(t)) /\ UNCHANGED <<pvars, avars>>
    \/ (\E now \in Times : get_current_status(now)) /\ UNCHANGED <<pvars, avars>>
    \/ (\E i \in DOMAIN samplers : monitor_resources_async(i)) /\ UNCHANGED <<pvars, avars>>
    \/ (\E i \in DOMAIN samplers : monitor_resources_test(i)) /\ UNCHANGED <<pvars, avars>>
    \/ (\E i \in DOMAIN samplers : monitor_resources_cpu(i)) /\ UNCHANGED <<pvars, avars>>
    \/ (\E i \in DOMAIN samplers : monitor_resources_memory(i)) /\ UNCHANGED <<pvars, avars>>
    \/ (\E i \in DOMAIN samplers : monitor_resources_threads(i)) /\ UNCHANGED <<pvars, avars>>

SpecMonitor == InitMonitor /\ [][NextMonitor]_vars

\* ------------------------------------------------- claims on the monitor

\* whether r, a result of GetCurrentStatus, is the return of exactly
\* {"status": "Monitoring not started"}
ReturnsNotStarted(r) ==
    /\ r.exc = None
    /\ Len(r.ret) = 1
    /\ DOMAIN r.ret[1] = {"status"}
    /\ r.ret[1].status = "Monitoring not started"

\* C5: stop_monitoring, called in any state of the monitor, leaves active
\* False and completes _generate_report without raising, the report file
\* written.
C5_StopAlwaysReports ==
    lastCall.op = "stop_monitoring" =>
        /\ active = FALSE
        /\ lastCall.exc = None
        /\ report_file # None

\* C6: get_current_status returns exactly {"status": "Monitoring not
\* started"} if and only if start_monitoring was never called, whatever
\* log_request and log_error calls came before.
C6_NotStartedIffNeverStarted ==
    \A now \in Times :
        ClockReading(now) =>
            (ReturnsNotStarted(GetCurrentStatus(now)) <=> startCalls = 0)

\* get_current_status was called and answered "not started" on a monitor
\* that logged a request and an error and was never started
C6_Witness ==
    /\ lastCall.op = "get_current_status"
    /\ ReturnsNotStarted(GetCurrentStatus(0))
    /\ startCalls = 0
    /\ requests_sent > 0
    /\ errors # None


\* ========================================================= hack_instagram.py

\* main uses RequestManager, TorManager and InstagramSecurityTester, whose
\* code is not among the source files (instagram_bruteforce.py defines
\* AISecurityTester only). Their constructors are taken to succeed; what
\* ensure_tor_running and conduct_security_test give back is an input.

\* an empty string and None are falsy
Truthy(opt) == opt # None /\ opt # Some("")

\* os.path.exists
PathExists(path, files) == path \in files

\* validate_arguments that stops at the first error it finds
ValidateArgumentsFirstOnly(a, files) ==
    LET e1 == IF a.username = "" THEN
                  <<<<"Username is required for security testing">>>> ELSE <<>>
        e2 == IF a.password_list = "" THEN
                  <<<<"Password list is required for testing">>>> ELSE <<>>
        e3 == IF a.password_list # "" /\ ~PathExists(a.password_list, files) THEN
                  <<<<"Password list file not found: ", a.password_list>>>> ELSE <<>>
        e4 == IF Truthy(a.proxy_list) /\ ~PathExists(a.proxy_list[1], files) THEN
                  <<<<"Proxy list file not found: ", a.proxy_list[1]>>>> ELSE <<>>
        e5 == IF a.threads < 1 THEN
                  <<<<"Thread count must be at least 1">>>> ELSE <<>>
        all == e1 \o e2 \o e3 \o e4 \o e5
    IN [ok |-> all = <<>>, errors |-> IF all = <<>> THEN <<>> ELSE <<Head(all)>>]

\* validate_arguments: what it returns and the errors it logs, in order
ValidateArguments(a, files) ==
    LET e1 == IF a.username = "" THEN
                  <<<<"Username is required for security testing">>>> ELSE <<>>
        e2 == IF a.password_list = "" THEN
                  <<<<"Password list is required for testing">>>> ELSE <<>>
        e3 == IF a.password_list # "" /\ ~PathExists(a.password_list, files) THEN
                  <<<<"Password list file not found: ", a.password_list>>>> ELSE <<>>
        e4 == IF Truthy(a.proxy_list) /\ ~PathExists(a.proxy_list[1], files) THEN
                  <<<<"Proxy list file not found: ", a.proxy_list[1]>>>> ELSE <<>>
        e5 == IF a.threads < 1 THEN
                  <<<<"Thread count must be at least 1">>>> ELSE <<>>
        all == e1 \o e2 \o e3 \o e4 \o e5
    IN [ok |-> all = <<>>, errors |-> all]

\* handle_arguments that goes on after a failed validation
HandleArgumentsNoExit ==
    IF argv = "bad"
    THEN [exit |-> Some(2), validate |-> None, logged |-> <<>>]
    ELSE LET v == ValidateArguments(args, fs) IN
         [exit |-> None, validate |-> Some(v.ok), logged |-> v.errors]

\* handle_arguments: the status it exits with (None: it returns args), what
\* validate_arguments returned and logged. argparse itself leaves with
\* status 2 on a command line it rejects.
HandleArguments ==
    IF argv = "bad"
    THEN [exit |-> Some(2), validate |-> None, logged |-> <<>>]
    ELSE LET v == ValidateArguments(args, fs) IN
         [exit |-> IF v.ok THEN None ELSE Some(1),
          validate |-> Some(v.ok), logged |-> v.errors]

\* a comparison that ignores case
AuthorizedIgnoringCase(line) == line \in {"AUTHORIZED", "authorized"}

\* `confirm != "AUTHORIZED"` negated
Authorized(line) == line = "AUTHORIZED"

\* main up to the prompt: display_banner, handle_arguments, the disclaimer
MainHandleArguments ==
    /\ pc = "start"
    /\ LET h == HandleArguments IN
         /\ validateResult' = h.validate
         /\ errorLog' = errorLog \o h.logged
         /\ exitStatus' = h.exit
         /\ IF h.exit # None
            THEN /\ pc' = "exited"
                 /\ events' = events \o <<"display_banner", "exit">>
            ELSE /\ pc' = "prompt"
                 /\ events' = events \o <<"display_banner", "disclaimer">>
    /\ UNCHANGED <<argv, args, fs, promptOutcome, confirm, uncaught>>
    /\ UNCHANGED <<mvars, avars>>

\* the two except clauses of main: both log and call monitor.stop_monitoring()
\* at clock reading `now`; the exception stop_monitoring raises leaves main.
\* Called with the monitor bound.
MainExceptHandler(now, done) ==
    /\ stop_monitoring(now)
    /\ events' = events \o done \o <<"except", "stop_monitoring">>
    /\ uncaught' = lastCall'.exc
    /\ pc' = IF lastCall'.exc = None THEN "returned" ELSE "crashed"

\* input() returns `line`
MainReadLine(line) ==
    /\ pc = "prompt"
    /\ promptOutcome' = "line"
    /\ confirm' = line
    /\ IF Authorized(line)
       THEN /\ pc' = "open_password_list"
            /\ events' = events \o <<"input", "OperationMonitor",
                                     "RequestManager", "InstagramSecurityTester">>
       ELSE /\ pc' = "returned"
            /\ events' = events \o <<"input", "print_cancelled">>
    /\ UNCHANGED <<argv, args, fs, errorLog, validateResult, exitStatus, uncaught>>
    /\ UNCHANGED <<mvars, avars>>

\* input() raises: the except clause runs with `monitor` never assigned, so
\* monitor.stop_monitoring() raises UnboundLocalError, which leaves main
MainReadFails(exc) ==
    /\ pc = "prompt"
    /\ promptOutcome' = exc
    /\ events' = events \o <<"input", "except">>
    /\ errorLog' = IF exc = "KeyboardInterrupt" THEN errorLog
                   ELSE Append(errorLog, <<"Unexpected error during security testing: ", exc>>)
    /\ uncaught' = Some("UnboundLocalError")
    /\ pc' = "crashed"
    /\ UNCHANGED <<argv, args, fs, validateResult, exitStatus, confirm>>
    /\ UNCHANGED <<mvars, avars>>

\* monitor.start_monitoring() inside the running event loop, then the call of
\* conduct_security_test
MainStartTest(now, done) ==
    /\ start_monitoring("async", now)
    /\ events' = events \o done \o <<"start_monitoring", "conduct_security_test">>
    /\ pc' = "testing"
    /\ UNCHANGED <<errorLog, uncaught>>

\* open(args.password_list) and what follows up to the next wait.
\* ok: whether the path, which exists, opens for reading.
\* With a proxy list, `await proxy_manager.initialize_proxies()` awaits the
\* None that function returns: TypeError.
MainOpenPasswordList(ok, now) ==
    /\ pc = "open_password_list"
    /\ IF ~ok
       THEN /\ MainExceptHandler(now, <<>>)
            /\ errorLog' = Append(errorLog, <<"Unexpected error during security testing: ", "OSError">>)
       ELSE IF Truthy(args.proxy_list)
       THEN /\ MainExceptHandler(now, <<"open_password_list", "ProxyManager", "initialize_proxies">>)
            /\ errorLog' = Append(errorLog, <<"Unexpected error during security testing: ", "TypeError">>)
       ELSE IF args.use_tor
       THEN /\ pc' = "tor"
            /\ events' = events \o <<"open_password_list", "TorManager">>
            /\ UNCHANGED <<errorLog, uncaught>>
            /\ UNCHANGED mvars
       ELSE MainStartTest(now, <<"open_password_list">>)
    /\ UNCHANGED <<argv, args, fs, validateResult, exitStatus, promptOutcome, confirm>>
    /\ UNCHANGED avars

\* tor_manager.ensure_tor_running() returns `running`
MainEnsureTor(running, now) ==
    /\ pc = "tor"
    /\ IF ~running
       THEN /\ pc' = "returned"
            /\ errorLog' = Append(errorLog, <<"Failed to initialize Tor. Exiting...">>)
            /\ events' = Append(events, "ensure_tor_running")
            /\ UNCHANGED uncaught
            /\ UNCHANGED mvars
       ELSE MainStartTest(now, <<"ensure_tor_running">>)
    /\ UNCHANGED <<argv, args, fs, validateResult, exitStatus, promptOutcome, confirm>>
    /\ UNCHANGED avars

\* while conduct_security_test waits, the event loop runs the sampling task
MainSample ==
    /\ pc = "testing"
    /\ \E i \in DOMAIN samplers : monitor_resources_async(i)
    /\ UNCHANGED <<pvars, avars>>

\* conduct_security_test ends (it returns, or raises), then
\* monitor.stop_monitoring() and the writing of args.output.
\* raised: the test raised; writable: open(args.output, 'w') succeeds.
MainTestEnds(raised, writable, now) ==
    /\ pc = "testing"
    /\ stop_monitoring(now)
    /\ IF raised
       THEN \* the except clause's stop_monitoring is the call made
            /\ events' = events \o <<"except", "stop_monitoring">>
            /\ errorLog' = Append(errorLog, <<"Unexpected error during security testing: ", "Exception">>)
            /\ uncaught' = lastCall'.exc
            /\ pc' = IF lastCall'.exc = None THEN "returned" ELSE "crashed"
       ELSE IF lastCall'.exc # None
       THEN \* stop_monitoring raised; the except clause calls it again, in
            \* the same state, and it raises again
            /\ events' = events \o <<"stop_monitoring", "except", "stop_monitoring">>
            /\ errorLog' = Append(errorLog, <<"Unexpected error during security testing: ", lastCall'.exc[1]>>)
            /\ uncaught' = lastCall'.exc
            /\ pc' = "crashed"
       ELSE IF ~writable
       THEN \* the except clause calls stop_monitoring again: same report
            /\ events' = events \o <<"stop_monitoring", "except", "stop_monitoring">>
            /\ errorLog' = Append(errorLog, <<"Unexpected error during security testing: ", "OSError">>)
            /\ uncaught' = None
            /\ pc' = "returned"
       ELSE /\ events' = events \o <<"stop_monitoring", "open_output">>
            /\ pc' = "done"
            /\ UNCHANGED <<errorLog, uncaught>>
    /\ UNCHANGED <<argv, args, fs, validateResult, exitStatus, promptOutcome, confirm>>
    /\ UNCHANGED avars

Init ==
    /\ MonitorInit
    /\ TesterIdle
    /\ pc = "start"
    /\ argv \in {"ok", "bad"}
    /\ args \in [username : Usernames, password_list : PasswordLists,
                 proxy_list : {None} \cup {Some(p) : p \in ProxyLists},
                 threads : ThreadArgs, use_tor : BOOLEAN]
    /\ fs \in SUBSET Paths
    /\ errorLog = <<>>
    /\ validateResult = None
    /\ exitStatus = None
    /\ promptOutcome = "pending"
    /\ confirm = ""
    /\ events = <<>>
    /\ uncaught = None

Next ==
    \/ MainHandleArguments
    \/ \E line \in ConfirmLines : MainReadLine(line)
    \/ \E exc \in InputErrors : MainReadFails(exc)
    \/ \E ok \in BOOLEAN, now \in Times : MainOpenPasswordList(ok, now)
    \/ \E running \in BOOLEAN, now \in Times : MainEnsureTor(running, now)
    \/ MainSample
    \/ \E raised \in BOOLEAN, writable \in BOOLEAN, now \in Times :
           MainTestEnds(raised, writable, now)

Spec == Init /\ [][Next]_vars


\* ------------------------------------------------------- claims on main

\* the events of the run after input() was called
EventsAfterInput ==
    LET i == CHOOSE k \in DOMAIN events : events[k] = "input"
    IN SubSeq(events, i + 1, Len(events))

\* C1: unless the line read at the prompt is exactly 'AUTHORIZED', main
\* returns having created no OperationMonitor, called neither
\* start_monitoring nor conduct_security_test and opened no file; after the
\* prompt it only prints the cancellation message.
C1_UnauthorizedDoesNothing ==
    (promptOutcome = "line" /\ confirm # "AUTHORIZED") =>
        /\ pc = "returned"
        /\ uncaught = None
        /\ EventsAfterInput = <<"print_cancelled">>
        /\ Range(events) \cap {"OperationMonitor", "start_monitoring",
                               "conduct_security_test", "open_password_list",
                               "open_output"} = {}
        /\ startCalls = 0
        /\ lastCall.op = "__init__"
        /\ report_file = None

\* main returned after the operator typed the word in lower case
C1_Witness ==
    /\ promptOutcome = "line"
    /\ confirm = "authorized"
    /\ pc = "returned"
    /\ "print_cancelled" \in Range(events)

\* the conditions validate_arguments reports, read off the arguments and the
\* disk. An empty string names no path.
UsernameEmpty == args.username = ""
PasswordListEmpty == args.password_list = ""
PasswordListMissing == args.password_list # "" /\ args.password_list \notin fs
ProxyListMissing ==
    /\ args.proxy_list # None
    /\ args.proxy_list # Some("")
    /\ \A p \in Range(args.proxy_list) : p \notin fs
ThreadsBelowOne == args.threads < 1
One(cond) == IF cond THEN 1 ELSE 0
ConditionsHolding ==
    One(UsernameEmpty) + One(PasswordListEmpty) + One(PasswordListMissing)
    + One(ProxyListMissing) + One(ThreadsBelowOne)

\* C3: validate_arguments returns True if and only if none of the five
\* conditions holds; when it returns False it has logged one error for
\* every condition that holds.
C3_ValidateArguments ==
    validateResult # None =>
        /\ validateResult = Some(TRUE) <=> ConditionsHolding = 0
        /\ validateResult = Some(FALSE) =>
             /\ Len(errorLog) = ConditionsHolding
             /\ UsernameEmpty =>
                  <<"Username is required for security testing">> \in Range(errorLog)
             /\ PasswordListEmpty =>
                  <<"Password list is required for testing">> \in Range(errorLog)
             /\ PasswordListMissing =>
                  <<"Password list file not found: ", args.password_list>> \in Range(errorLog)
             /\ ProxyListMissing =>
                  \A p \in Range(args.proxy_list) :
                      <<"Proxy list file not found: ", p>> \in Range(errorLog)
             /\ ThreadsBelowOne =>
                  <<"Thread count must be at least 1">> \in Range(errorLog)

\* validate_arguments returned False with four conditions holding at once
C3_Witness ==
    /\ validateResult = Some(FALSE)
    /\ UsernameEmpty /\ PasswordListMissing /\ ProxyListMissing /\ ThreadsBelowOne
    /\ Len(errorLog) = 4

\* C4: when validate_arguments returns False the process exits with status
\* 1: main never prompts, never creates a monitor, never starts a test.
C4_InvalidArgumentsExit ==
    validateResult = Some(FALSE) =>
        /\ pc = "exited"
        /\ exitStatus = Some(1)
        /\ Range(events) \cap {"disclaimer", "input", "OperationMonitor",
                               "start_monitoring", "conduct_security_test"} = {}
        /\ promptOutcome = "pending"
        /\ startCalls = 0

\* the process exited with status 1 after a failed validation
C4_Witness ==
    /\ validateResult = Some(FALSE)
    /\ pc = "exited"
    /\ exitStatus = Some(1)
    /\ errorLog # <<>>


\* ================================================== instagram_bruteforce.py

\* what one call of test_login_credentials can meet
LoginOutcomes ==
    {"error_before_post",   \* an exception before the POST is answered
     "no_csrf_token",       \* no token in the login page
     "bad_json",            \* the POST is answered, response.json() raises
     "authenticated",
     "rate_limited",
     "rejected",            \* result.get('user', True) is truthy
     "no_user"}             \* none of the branches: falls to `return False`

\* test_login_credentials(username, password) meeting `outcome`: the new
\* attempts, found_password and previous_attempts, and what it returns
TestLoginCredentials(password, outcome) ==
    LET posted == outcome \notin {"error_before_post", "no_csrf_token"} IN
    [attempts |-> IF posted THEN attempts + 1 ELSE attempts,
     found_password |-> IF outcome = "authenticated" THEN Some(password)
                        ELSE found_password,
     previous_attempts |-> IF outcome = "rejected"
                           THEN Append(previous_attempts, password)
                           ELSE previous_attempts,
     success |-> outcome = "authenticated"]

\* a comparison after stripping and upper-casing the line
AIAuthorizedLoosely(line) ==
    line \in {"AI AUTHORIZED TESTING", "ai authorized testing"}

\* `confirm != "AI AUTHORIZED TESTING"` negated
AIAuthorized(line) == line = "AI AUTHORIZED TESTING"

\* ai_security_demonstration up to the end of input(), which returns `line`.
\* On the authorized line it goes on into conduct_ai_security_test, up to
\* the first turn of its loop.
AIReadLine(line) ==
    /\ pc = "ai_prompt"
    /\ promptOutcome' = "line"
    /\ confirm' = line
    /\ IF AIAuthorized(line)
       THEN /\ pc' = "ai_loop"
            /\ events' = events \o <<"input", "conduct_ai_security_test">>
            /\ previous_attempts' = <<>>
            /\ attempt' = 0
       ELSE /\ pc' = "returned"
            /\ events' = events \o <<"input", "print_cancelled">>
            /\ UNCHANGED <<previous_attempts, attempt>>
    /\ UNCHANGED <<attempts, found_password>>
    /\ UNCHANGED <<argv, args, fs, errorLog, validateResult, exitStatus, uncaught>>
    /\ UNCHANGED mvars

\* input() raises: nothing catches it
AIReadFails(exc) ==
    /\ pc = "ai_prompt"
    /\ promptOutcome' = exc
    /\ events' = Append(events, "input")
    /\ uncaught' = Some(exc)
    /\ pc' = "crashed"
    /\ UNCHANGED <<argv, args, fs, errorLog, validateResult, exitStatus, confirm>>
    /\ UNCHANGED <<mvars, avars>>

\* one turn of the loop of conduct_ai_security_test: a generated password is
\* tried; on success the function returns, else the loop goes on
AIAttempt(password, outcome) ==
    /\ pc = "ai_loop"
    /\ attempt < MaxAttempts
    /\ found_password = None
    /\ LET r == TestLoginCredentials(password, outcome) IN
         /\ attempts' = r.attempts
         /\ found_password' = r.found_password
         /\ previous_attempts' = r.previous_attempts
         /\ IF r.success
            THEN /\ pc' = "done"
                 /\ events' = Append(events, "security_alert")
                 /\ UNCHANGED attempt
            ELSE /\ attempt' = attempt + 1
                 /\ UNCHANGED <<pc, events>>
    /\ UNCHANGED <<argv, args, fs, errorLog, validateResult, exitStatus,
                   promptOutcome, confirm, uncaught>>
    /\ UNCHANGED mvars

\* the loop of conduct_ai_security_test runs out
AIExhausted ==
    /\ pc = "ai_loop"
    /\ attempt = MaxAttempts
    /\ pc' = "done"
    /\ events' = Append(events, "no_issue_detected")
    /\ UNCHANGED <<argv, args, fs, errorLog, validateResult, exitStatus,
                   promptOutcome, confirm, uncaught>>
    /\ UNCHANGED <<mvars, avars>>

\* ai_tester = AISecurityTester(), the banner, the prompt shown
InitAI ==
    /\ MonitorInit
    /\ TesterIdle
    /\ pc = "ai_prompt"
    /\ argv = "ok"
    /\ args = [username |-> "your_test_account_here", password_list |-> "",
               proxy_list |-> None, threads |-> 1, use_tor |-> FALSE]
    /\ fs = {}
    /\ errorLog = <<>>
    /\ validateResult = None
    /\ exitStatus = None
    /\ promptOutcome = "pending"
    /\ confirm = ""
    /\ events = <<>>
    /\ uncaught = None

NextAI ==
    \/ \E line \in ConfirmLines : AIReadLine(line)
    \/ \E exc \in InputErrors : AIReadFails(exc)
    \/ \E password \in Passwords, outcome \in LoginOutcomes : AIAttempt(password, outcome)
    \/ AIExhausted

SpecAI == InitAI /\ [][NextAI]_vars

\* C2: unless the line read at the prompt is exactly 'AI AUTHORIZED
\* TESTING', ai_security_demonstration returns without calling
\* conduct_ai_security_test, and the tester's attempt counter stays 0.
C2_UnauthorizedNeverTests ==
    (promptOutcome = "line" /\ confirm # "AI AUTHORIZED TESTING") =>
        /\ pc = "returned"
        /\ "conduct_ai_security_test" \notin Range(events)
        /\ attempts = 0
        /\ found_password = None
        /\ previous_attempts = <<>>

\* the demonstration returned after the operator typed the phrase in lower
\* case
C2_Witness ==
    /\ promptOutcome = "line"
    /\ confirm = "ai authorized testing"
    /\ pc = "returned"
    /\ attempts = 0

====
